---- MODULE Spec2Model ----
(***************************************************************************)
(* Model of the benchmark harness of src/mod.ts (the concurrent variant,   *)
(* lines 150-421): the registry filled by bench, the selection done by     *)
(* runBenchmarks, the Runner tasks launched by initBenchmarks, their       *)
(* completion handlers (createBenchmark), the join of runBenchmarks with   *)
(* its two sweeps, the summary line and the deferred exit.                 *)
(***************************************************************************)
EXTENDS Integers, Sequences, FiniteSets, TLC

VARIABLES
  candidates,  \* the registry: sequence of [name, runs]            (mod.ts:364)
  call,        \* the last call of the public API and how it ended
  pc,          \* "register" | "running" | "closed" | "exited"
  opts,        \* the options of the runBenchmarks call after Object.assign
  benchmarks,  \* the selected definitions                          (mod.ts:389)
  keys,        \* the property names of results, in Object.entries order
  results,     \* name -> [index, timings, printed, failed]         (mod.ts:399)
  meta,        \* [filtered, measured, failed]                      (mod.ts:393)
  inv,         \* per selected definition, per invocation: its settlement
  task,        \* per selected definition: state of its createBenchmark promise
  out,         \* the lines written to the console, in order
  exitTimer,   \* "none" | "scheduled" | "fired": the setTimeout of mod.ts:419
  exitCalls,   \* the statuses exit() was called with, in order
  \* the invocations of initRunners seen one Timer call at a time
  now,         \* what performance.now() returns at this moment
  clocks,      \* the BenchmarkClock objects createRunner has made (mod.ts:287)
  own,         \* per invocation: the last time its own body called start, stop
  runner       \* per invocation: how its body ended and what createRunner gave

\* the variables of the invocations' view
timerVars == <<now, clocks, own, runner>>

vars == <<candidates, call, pc, opts, benchmarks, keys, results, meta, inv,
          task, out, exitTimer, exitCalls, now, clocks, own, runner>>

----------------------------------------------------------------------------
(* Bounds *)

MaxDefs == 3     \* registered definitions (registration model)
MaxSel == 3      \* selected definitions of a run (run model)
MaxRuns == 2     \* largest stored runs of a definition
MaxInv == 3      \* invocations launched by a run (run model)
MaxConc == 2     \* invocations running at once (invocations' view)
MaxTime == 2     \* largest timestamp read (invocations' view)

----------------------------------------------------------------------------
(* Names and patterns.  A name is a sequence of characters. *)

Whitespace == {" "}

NameA == <<"a">>
NameAZ == <<"a", "z">>
NameZ == <<"z">>
NameBlank == <<" ">>
NameEmpty == <<>>

\* the non-empty names bench is called with
Names == {NameA, NameAZ, NameZ, NameBlank}

\* RegExp.prototype.test for the patterns used: the two defaults of
\* runBenchmarks and the two of the filtering example.
Test(pattern, name) ==
  CASE pattern = "/[^\\s]/" -> \E i \in 1..Len(name) : name[i] \notin Whitespace
    [] pattern = "/^\\s*$/" -> \A i \in 1..Len(name) : name[i] \in Whitespace
    [] pattern = "/^a/"     -> Len(name) >= 1 /\ name[1] = "a"
    [] pattern = "/z$/"     -> Len(name) >= 1 /\ name[Len(name)] = "z"

DefaultOnly == "/[^\\s]/"
DefaultSkip == "/^\\s*$/"

----------------------------------------------------------------------------
(* Numbers as bench receives them in `runs`: <<kind, n, d>>.               *)
(* "undef" is an unset property, "nan" is NaN, "inf" is n * Infinity       *)
(* (n = 1 or -1), "num" is the rational n / d with d > 0.                  *)

Undef == <<"undef", 0, 1>>
NaNRuns == <<"nan", 0, 1>>
PosInf == <<"inf", 1, 1>>
NegInf == <<"inf", -1, 1>>

Num(n, d) == <<"num", n, d>>

\* JavaScript truthiness of a number or undefined
Truthy(x) ==
  CASE x[1] = "undef" -> FALSE
    [] x[1] = "nan"   -> FALSE
    [] x[1] = "inf"   -> TRUE
    [] x[1] = "num"   -> x[2] # 0

\* x >= 1
GeOne(x) ==
  CASE x[1] = "undef" -> FALSE
    [] x[1] = "nan"   -> FALSE
    [] x[1] = "inf"   -> x[2] > 0
    [] x[1] = "num"   -> x[2] >= x[3]

\* Math.floor of a finite number (\div rounds toward minus infinity)
Floor(x) == x[2] \div x[3]

\* (a normalisation that forgets runs >= 1)
verifyOr1RunTruthy(runs) ==
  IF Truthy(runs) /\ runs # PosInf THEN Floor(runs) ELSE 1

verifyOr1Run(runs) ==
  IF Truthy(runs) /\ GeOne(runs) /\ runs # PosInf THEN Floor(runs) ELSE 1

\* the values of `runs` bench is called with: unset, not finite, negative,
\* zero, fractions below and above 1, integers
RunsInputs ==
  {Undef, NaNRuns, PosInf, NegInf}
    \cup {Num(n, d) : n \in (-1)..(MaxRuns + 1), d \in {1, 2}}

----------------------------------------------------------------------------
(* The registry: bench *)

\* What bench is called with: a function (its name is the function's name,
\* "" for an anonymous one) or a definition object whose name may be unset.
BenchInputs ==
  [kind : {"function"}, hasName : {TRUE}, name : Names \cup {NameEmpty},
   runs : {Undef}]
    \cup [kind : {"definition"}, hasName : {TRUE}, name : Names,
          runs : RunsInputs]
    \cup [kind : {"definition"}, hasName : BOOLEAN, name : {NameEmpty},
          runs : {Undef, Num(2, 1)}]

\* (a bench that rejects "" and lets an unset name through)
AnonymousEmptyString(b) == b.hasName /\ b.name = NameEmpty

\* !benchmark.name
Anonymous(b) == ~b.hasName \/ b.name = NameEmpty

\* the definition bench pushes
Registered(b) ==
  IF b.kind = "function"
    THEN [name |-> b.name, runs |-> 1]
    ELSE [name |-> b.name, runs |-> verifyOr1Run(b.runs)]

AnonymousError == "The benchmark function must not be anonymous"

bench(b) ==
  /\ pc = "register"
  /\ IF Anonymous(b)
       THEN /\ call' = [op |-> "bench", arg |-> b, error |-> AnonymousError]
            /\ UNCHANGED candidates
       ELSE /\ Len(candidates) < MaxDefs
            /\ Registered(b).runs <= MaxRuns
            /\ candidates' = Append(candidates, Registered(b))
            /\ call' = [op |-> "bench", arg |-> b, error |-> "none"]
  /\ UNCHANGED <<pc, opts, benchmarks, keys, results, meta, inv, task, out,
                 exitTimer, exitCalls>>
  /\ UNCHANGED timerVars

----------------------------------------------------------------------------
(* runBenchmarks: selection and launch (the part before the first await) *)

\* What runBenchmarks is called with: each option set to a pattern or unset.
\* (an unset option carries the default pattern as a placeholder)
OptsInputs ==
  {[hasOnly |-> ho, only |-> IF ho THEN "/^a/" ELSE DefaultOnly,
    hasSkip |-> hs, skip |-> IF hs THEN "/z$/" ELSE DefaultSkip] :
     ho \in BOOLEAN, hs \in BOOLEAN}

NoOpts ==
  [hasOnly |-> FALSE, only |-> DefaultOnly, hasSkip |-> FALSE,
   skip |-> DefaultSkip]

\* Object.assign({ only: /[^\s]/, skip: /^\s*$/ }, opts || {})
AssignOpts(o) ==
  [only |-> IF o.hasOnly THEN o.only ELSE DefaultOnly,
   skip |-> IF o.hasSkip THEN o.skip ELSE DefaultSkip]

\* (a filter that forgets `skip`)
KeepOnlyMatch(o, def) == Test(o.only, def.name)

\* the predicate of candidates.filter
Keep(o, def) == Test(o.only, def.name) /\ ~Test(o.skip, def.name)

RECURSIVE Filter(_, _)
Filter(cands, o) ==
  IF cands = <<>> THEN <<>>
  ELSE (IF Keep(o, Head(cands)) THEN <<Head(cands)>> ELSE <<>>)
         \o Filter(Tail(cands), o)

NewMeta(cands, bs) ==
  [filtered |-> Len(cands) - Len(bs), measured |-> 0, failed |-> FALSE]

\* timings of a ResultEntry: null, or an array of durations
Null == [isArray |-> FALSE, vals |-> <<>>]
Arr(v) == [isArray |-> TRUE, vals |-> v]

\* createBenchmarkResults: one property per name; a later definition of the
\* same name overwrites the entry (its index is the last one's) ...
createBenchmarkResults(bs) ==
  [n \in {bs[i].name : i \in 1..Len(bs)} |->
     [index |-> (CHOOSE i \in 1..Len(bs) :
                   /\ bs[i].name = n
                   /\ \A j \in 1..Len(bs) : bs[j].name = n => j <= i) - 1,
      timings |-> Null, printed |-> FALSE, failed |-> FALSE]]

\* ... while the property keeps the place of its first assignment, which is
\* the order Object.entries and Object.values enumerate in.
RECURSIVE KeysOf(_, _)
KeysOf(bs, seen) ==
  IF bs = <<>> THEN <<>>
  ELSE IF Head(bs).name \in seen THEN KeysOf(Tail(bs), seen)
  ELSE <<Head(bs).name>> \o KeysOf(Tail(bs), seen \cup {Head(bs).name})

Pending == [st |-> "pending", dur |-> 0]

\* the promise of an invocation whose body threw before its first await:
\* the async function of createRunner returns it already rejected
Thrown == [st |-> "rejected", dur |-> 0]

\* the calls of func initRunners makes: <<i, k>> is invocation k of
\* definition i
Started(bs) == UNION {{<<i, k>> : k \in 1..bs[i].runs} : i \in 1..Len(bs)}

\* initRunners: `runs` invocations per definition, all started; each call of
\* func throws before its first await or not by itself: the calls in
\* `thrown` did and their promises are rejected already, the others are
\* pending at their await
initRunners(bs, thrown) ==
  [i \in 1..Len(bs) |->
     [k \in 1..bs[i].runs |-> IF <<i, k>> \in thrown THEN Thrown ELSE Pending]]

\* initBenchmarks: one createBenchmark promise per selected definition
initBenchmarks(bs) == [i \in 1..Len(bs) |-> "pending"]

RunningLine(bs) == [kind |-> "running", count |-> Len(bs)]

\* the number of invocations a run of these definitions launches
RECURSIVE Invocations(_)
Invocations(cands) ==
  IF cands = <<>> THEN 0 ELSE Head(cands).runs + Invocations(Tail(cands))

\* runBenchmarks up to its await (mod.ts:407), for the runs that launch
\* MaxInv invocations at most
runBenchmarks(o) ==
  /\ pc = "register"
  /\ Invocations(Filter(candidates, AssignOpts(o))) <= MaxInv
  /\ pc' = "running"
  /\ call' = [op |-> "runBenchmarks", arg |-> o, error |-> "none"]
  /\ opts' = AssignOpts(o)
  /\ benchmarks' = Filter(candidates, opts')
  /\ meta' = NewMeta(candidates, benchmarks')
  /\ results' = createBenchmarkResults(benchmarks')
  /\ keys' = KeysOf(benchmarks', {})
  /\ out' = <<RunningLine(benchmarks')>>
  /\ \E thrown \in SUBSET Started(benchmarks') :
       inv' = initRunners(benchmarks', thrown)
  /\ task' = initBenchmarks(benchmarks')
  /\ UNCHANGED <<candidates, exitTimer, exitCalls>>
  /\ UNCHANGED timerVars

----------------------------------------------------------------------------
(* Initial state and the registration model *)

NoCall == [op |-> "none", arg |-> NoOpts, error |-> "none"]

\* the invocations' view while it is not looked at
TimerIdle ==
  /\ now = 0
  /\ clocks = <<>>
  /\ own = <<>>
  /\ runner = <<>>

Init ==
  /\ TimerIdle
  /\ candidates = <<>>
  /\ call = NoCall
  /\ pc = "register"
  /\ opts = AssignOpts(NoOpts)
  /\ benchmarks = <<>>
  /\ keys = <<>>
  /\ results = createBenchmarkResults(<<>>)
  /\ meta = NewMeta(<<>>, <<>>)
  /\ inv = initRunners(<<>>, {})
  /\ task = initBenchmarks(<<>>)
  /\ out = <<>>
  /\ exitTimer = "none"
  /\ exitCalls = <<>>

NextReg ==
  \/ \E b \in BenchInputs : bench(b)
  \/ \E o \in OptsInputs : runBenchmarks(o)

SpecReg == Init /\ [][NextReg]_vars

----------------------------------------------------------------------------
(* One invocation: createRunner *)

\* the timestamps performance.now() returns in the model
Times == {0, 1, 2}

\* a field of a BenchmarkClock: NaN until the Timer method writes a timestamp
NaN == [isNaN |-> TRUE, t |-> 0]
At(t) == [isNaN |-> FALSE, t |-> t]

ClockVals == {NaN} \cup {At(t) : t \in Times}

\* What one invocation of a body does: it throws (or rejects), or it
\* completes leaving the invocation's own clock as its calls of start and
\* stop wrote it.
Bodies == [throws : BOOLEAN, start : ClockVals, stop : ClockVals]

\* !x for a number: NaN and 0 are falsy
Falsy(x) == x.isNaN \/ x.t = 0

StopError == "The benchmark timer's stop method must be called"
StartError == "The benchmark timer's start method must be called"
OrderError ==
  "The benchmark timer's start method must be called before its stop method"

\* assertTiming: the error it throws, "none" if it returns
assertTiming(clock) ==
  IF Falsy(clock.stop) THEN StopError
  ELSE IF Falsy(clock.start) THEN StartError
  ELSE IF clock.start.t > clock.stop.t THEN OrderError
  ELSE "none"

\* the settlement of the promise createRunner(func)() returns
createRunner(body) ==
  IF body.throws \/ assertTiming(body) # "none"
    THEN [st |-> "rejected", dur |-> 0]
    ELSE [st |-> "fulfilled", dur |-> body.stop.t - body.start.t]

----------------------------------------------------------------------------
(* Console lines *)

RECURSIVE Sum(_)
Sum(nums) == IF nums = <<>> THEN 0 ELSE Head(nums) + Sum(Tail(nums))

\* average(nums) as the fraction <<numerator, denominator>>
average(nums) == <<Sum(nums), Len(nums)>>

report(name, timings) ==
  IF Len(timings) = 1
    THEN [kind |-> "report", name |-> name, value |-> <<timings[1], 1>>,
          runs |-> 1]
    ELSE [kind |-> "report", name |-> name, value |-> average(timings),
          runs |-> Len(timings)]

fail(name) == [kind |-> "failed", name |-> name]

unresolve(name) == [kind |-> "unresolved", name |-> name]

\* (a summary that shows the state the run started with)
SummaryNeverFail(m) ==
  [kind |-> "summary", state |-> "DONE", measured |-> m.measured,
   filtered |-> m.filtered]

Summary(m) ==
  [kind |-> "summary", state |-> IF m.failed THEN "FAIL" ELSE "DONE",
   measured |-> m.measured, filtered |-> m.filtered]

\* the lines logPendingResults writes, entries taken in Object.entries order
RECURSIVE logPendingResults(_, _)
logPendingResults(ks, res) ==
  IF ks = <<>> THEN <<>>
  ELSE (IF res[Head(ks)].timings.isArray /\ ~res[Head(ks)].printed
          THEN <<report(Head(ks), res[Head(ks)].timings.vals)>>
          ELSE <<>>)
         \o logPendingResults(Tail(ks), res)

\* the line logFailingResults writes for one entry
FailingLine(name, r) ==
  IF ~r.printed /\ ~r.failed /\ r.timings.isArray
    THEN report(name, r.timings.vals)
  ELSE IF ~r.printed /\ r.failed THEN fail(name)
  ELSE unresolve(name)

RECURSIVE logFailingResults(_, _)
logFailingResults(ks, res) ==
  IF ks = <<>> THEN <<>>
  ELSE <<FailingLine(Head(ks), res[Head(ks)])>>
         \o logFailingResults(Tail(ks), res)

----------------------------------------------------------------------------
(* createBenchmark: what runs when the Promise.all of a definition's       *)
(* invocations settles                                                     *)

\* Promise.all over the invocations of one definition
AllFulfilled(settled) == \A k \in DOMAIN settled : settled[k].st = "fulfilled"

Durations(settled) == [k \in DOMAIN settled |-> settled[k].dur]

\* mod.ts:338-342
prevResolved(res, curIndex) ==
  \E n \in DOMAIN res : res[n].timings.isArray /\ res[n].index = curIndex - 1

\* mod.ts:344
ReportsNow(res, curIndex) == curIndex = 0 \/ prevResolved(res, curIndex)

\* the ways the promise of one invocation can settle
Settlements == {createRunner(body) : body \in Bodies}

\* (invocations awaited one after the other, as the await in the loop of the
\* serial variant does)
AwaitedInTurn(i, k) ==
  /\ inv[i][k].st = "pending"
  /\ \A i2 \in DOMAIN inv : \A k2 \in DOMAIN inv[i2] :
       (i2 < i \/ (i2 = i /\ k2 < k)) => inv[i2][k2].st # "pending"

\* initRunners and initBenchmarks have started every invocation before
\* anything is awaited: each settles when its own body is done
Awaited(i, k) == inv[i][k].st = "pending"

\* The promise of invocation k of definition i settles as s (the body has
\* returned or thrown and createRunner's continuation has run).  Nothing but
\* the promise changes: createBenchmark learns of it in a later job.
Settle(i, k, s) ==
  /\ pc \in {"running", "closed"}
  /\ Awaited(i, k)
  /\ inv' = [inv EXCEPT ![i][k] = s]
  /\ UNCHANGED <<candidates, call, pc, opts, benchmarks, keys, results, meta,
                 task, out, exitTimer, exitCalls>>
  /\ UNCHANGED timerVars

\* the Promise.all of mod.ts:330 has settled and createBenchmark can resume:
\* rejected with the first rejection, fulfilled once every invocation is
Resumable(i) ==
  /\ i \in DOMAIN task
  /\ task[i] = "pending"
  /\ \/ \E k \in DOMAIN inv[i] : inv[i][k].st = "rejected"
     \/ AllFulfilled(inv[i])

\* createBenchmark of definition i resumes after its await: a rejection runs
\* the catch block, a fulfilment the rest of the function.
Resume(i) ==
  LET name == benchmarks[i].name
      timed == [results EXCEPT ![name].timings = Arr(Durations(inv[i]))]
      curIndex == results[name].index
  IN
  /\ pc \in {"running", "closed"}
  /\ Resumable(i)
  /\ IF ~AllFulfilled(inv[i])
       THEN /\ task' = [task EXCEPT ![i] = "rejected"]
            /\ results' = [results EXCEPT ![name].failed = TRUE]
            /\ meta' = [meta EXCEPT !.failed = TRUE]
            /\ UNCHANGED out
       ELSE /\ task' = [task EXCEPT ![i] = "fulfilled"]
            /\ IF ReportsNow(timed, curIndex)
                 THEN /\ results' = [timed EXCEPT ![name].printed = TRUE]
                      /\ out' = Append(out, report(name, Durations(inv[i])))
                 ELSE /\ results' = timed
                      /\ UNCHANGED out
            /\ meta' = [meta EXCEPT !.measured = @ + 1]
  /\ UNCHANGED <<candidates, call, pc, opts, benchmarks, keys, inv, exitTimer,
                 exitCalls>>
  /\ UNCHANGED timerVars

----------------------------------------------------------------------------
(* runBenchmarks after the await of mod.ts:407 *)

\* (a close that defers the exit whether or not the run failed)
CloseExitAlways(lines) ==
  /\ out' = out \o lines \o <<Summary(meta)>>
  /\ exitTimer' = "scheduled"
  /\ pc' = "closed"
  /\ UNCHANGED <<candidates, call, opts, benchmarks, keys, results, meta,
                 inv, task, exitCalls>>
  /\ UNCHANGED timerVars

\* mod.ts:412-420: the summary line and the deferred exit
Close(lines) ==
  /\ out' = out \o lines \o <<Summary(meta)>>
  /\ exitTimer' = IF meta.failed THEN "scheduled" ELSE exitTimer
  /\ pc' = "closed"
  /\ UNCHANGED <<candidates, call, opts, benchmarks, keys, results, meta,
                 inv, task, exitCalls>>
  /\ UNCHANGED timerVars

\* Promise.all of the createBenchmark promises fulfils once all have
JoinFulfilled ==
  /\ pc = "running"
  /\ \A i \in DOMAIN task : task[i] = "fulfilled"
  /\ Close(logPendingResults(keys, results))

\* Promise.all rejects with the first rejection, whatever the others do
JoinRejected ==
  /\ pc = "running"
  /\ \E i \in DOMAIN task : task[i] = "rejected"
  /\ Close(logFailingResults(keys, results))

ExitStatus == 1

\* the callback of setTimeout(() => exit(1), 0): the process ends.  A timer
\* callback runs only once no promise continuation is waiting to run.
Exit ==
  /\ pc = "closed"
  /\ exitTimer = "scheduled"
  /\ \A i \in DOMAIN task : ~Resumable(i)
  /\ exitTimer' = "fired"
  /\ exitCalls' = Append(exitCalls, ExitStatus)
  /\ pc' = "exited"
  /\ UNCHANGED <<candidates, call, opts, benchmarks, keys, results, meta,
                 inv, task, out>>
  /\ UNCHANGED timerVars

----------------------------------------------------------------------------
(* The run model: runBenchmarks() called on a registry of named            *)
(* definitions, from the moment its Runner tasks are launched              *)

\* the names of the run model, in the order a registry first uses them
RunNames == <<NameA, NameAZ, NameZ>>

\* Under the default options a run depends on the names only through which
\* definitions share one, so a registry takes its names in first-use order:
\* each definition has a name already used or the next unused one.
FirstUseOrder(cands) ==
  \A i \in 1..Len(cands) :
    \E u \in 1..Len(RunNames) :
      /\ cands[i].name = RunNames[u]
      /\ \A v \in 1..(u - 1) : \E j \in 1..(i - 1) : cands[j].name = RunNames[v]

Defs == [name : {RunNames[u] : u \in 1..Len(RunNames)}, runs : 1..MaxRuns]

RunRegistries ==
  {cands \in UNION {[1..n -> Defs] : n \in 0..MaxSel} :
     FirstUseOrder(cands) /\ Invocations(cands) <= MaxInv}

InitRun ==
  \E cands \in RunRegistries :
    /\ TimerIdle
    /\ candidates = cands
    /\ call = [op |-> "runBenchmarks", arg |-> NoOpts, error |-> "none"]
    /\ pc = "running"
    /\ opts = AssignOpts(NoOpts)
    /\ benchmarks = Filter(cands, opts)
    /\ keys = KeysOf(benchmarks, {})
    /\ results = createBenchmarkResults(benchmarks)
    /\ meta = NewMeta(cands, benchmarks)
    /\ \E thrown \in SUBSET Started(benchmarks) :
         inv = initRunners(benchmarks, thrown)
    /\ task = initBenchmarks(benchmarks)
    /\ out = <<RunningLine(benchmarks)>>
    /\ exitTimer = "none"
    /\ exitCalls = <<>>

NextRun ==
  \/ \E i \in DOMAIN inv : \E k \in DOMAIN inv[i] : \E s \in Settlements :
       Settle(i, k, s)
  \/ \E i \in DOMAIN task : Resume(i)
  \/ JoinFulfilled
  \/ JoinRejected
  \/ Exit

SpecRun == InitRun /\ [][NextRun]_vars

\* the whole program: registration, then one run
Next == NextReg \/ NextRun

Spec == Init /\ [][Next]_vars

\* the run model with the scheduling the event loop guarantees: a
\* continuation that is ready to run and a timer that is due do run
FairRun ==
  /\ SpecRun
  /\ \A i \in 1..MaxSel : WF_vars(Resume(i))
  /\ WF_vars(JoinFulfilled) /\ WF_vars(JoinRejected) /\ WF_vars(Exit)

----------------------------------------------------------------------------
(* The invocations' view: the invocations initRunners has started, each    *)
(* body calling its Timer while the others run, until it returns or throws *)

Invs == 1..MaxConc

\* mod.ts:287
NewClock == [start |-> NaN, stop |-> NaN]

Running == [body |-> "running", res |-> Pending, error |-> "none"]

\* (one clock made outside the runner and shared, as in the serial variant)
ClockShared(j) == 1

\* the clock invocation j made for itself and bound its Timer to
ClockOf(j) == j

InitTimer ==
  /\ candidates = <<>>
  /\ call = NoCall
  /\ pc = "register"
  /\ opts = AssignOpts(NoOpts)
  /\ benchmarks = <<>>
  /\ keys = <<>>
  /\ results = createBenchmarkResults(<<>>)
  /\ meta = NewMeta(<<>>, <<>>)
  /\ inv = initRunners(<<>>, {})
  /\ task = initBenchmarks(<<>>)
  /\ out = <<>>
  /\ exitTimer = "none"
  /\ exitCalls = <<>>
  /\ now \in 0..MaxTime
  /\ clocks = [j \in Invs |-> NewClock]
  /\ own = [j \in Invs |-> NewClock]
  /\ runner = [j \in Invs |-> Running]

runVars ==
  <<candidates, call, pc, opts, benchmarks, keys, results, meta, inv, task,
    out, exitTimer, exitCalls>>

\* performance.now() never goes back
Tick ==
  /\ now < MaxTime
  /\ now' = now + 1
  /\ UNCHANGED <<clocks, own, runner, runVars>>

\* the body of invocation j calls b.start()
TimerStart(j) ==
  /\ runner[j].body = "running"
  /\ clocks' = [clocks EXCEPT ![ClockOf(j)].start = At(now)]
  /\ own' = [own EXCEPT ![j].start = At(now)]
  /\ UNCHANGED <<now, runner, runVars>>

\* the body of invocation j calls b.stop()
TimerStop(j) ==
  /\ runner[j].body = "running"
  /\ clocks' = [clocks EXCEPT ![ClockOf(j)].stop = At(now)]
  /\ own' = [own EXCEPT ![j].stop = At(now)]
  /\ UNCHANGED <<now, runner, runVars>>

\* the body of invocation j completes: mod.ts:292-294
BodyReturns(j) ==
  LET clock == clocks[ClockOf(j)]
      body == [throws |-> FALSE, start |-> clock.start, stop |-> clock.stop]
  IN
  /\ runner[j].body = "running"
  /\ runner' = [runner EXCEPT ![j] = [body |-> "returned",
                                       res |-> createRunner(body),
                                       error |-> assertTiming(clock)]]
  /\ UNCHANGED <<now, clocks, own, runVars>>

\* the body of invocation j throws or rejects: the await of mod.ts:290 throws
BodyThrows(j) ==
  LET clock == clocks[ClockOf(j)]
      body == [throws |-> TRUE, start |-> clock.start, stop |-> clock.stop]
  IN
  /\ runner[j].body = "running"
  /\ runner' = [runner EXCEPT ![j] = [body |-> "threw",
                                       res |-> createRunner(body),
                                       error |-> "thrown"]]
  /\ UNCHANGED <<now, clocks, own, runVars>>

NextTimer ==
  \/ Tick
  \/ \E j \in Invs : TimerStart(j)
  \/ \E j \in Invs : TimerStop(j)
  \/ \E j \in Invs : BodyReturns(j)
  \/ \E j \in Invs : BodyThrows(j)

SpecTimer == InitTimer /\ [][NextTimer]_vars

----------------------------------------------------------------------------
(* What the claims speak of *)

\* positions in out of the per-benchmark lines
BenchLines == {p \in DOMAIN out : out[p].kind \in {"report", "failed", "unresolved"}}

\* number of lines of one kind written for a name
Count(kind, name) ==
  Cardinality({p \in DOMAIN out : out[p].kind = kind /\ out[p].name = name})

SummaryLines == {p \in DOMAIN out : out[p].kind = "summary"}

\* the Runner of definition i has failed / has completed successfully
RunnerFailed(i) == task[i] = "rejected"
RunnerCompleted(i) == task[i] = "fulfilled"

\* every body of the run has settled
BodiesSettled ==
  \A i \in DOMAIN inv : \A k \in DOMAIN inv[i] : inv[i][k].st # "pending"

\* runBenchmarks has passed its join and written the summary
Joined == pc \in {"closed", "exited"}

\* no two selected definitions share a name: each entry of results is one
\* definition's
DistinctNames ==
  \A i, j \in DOMAIN benchmarks :
    benchmarks[i].name = benchmarks[j].name => i = j

----------------------------------------------------------------------------
(* C1 - C7: the run *)

\* C1: the per-benchmark lines of a run appear in registration order: a line
\* of the entry with index j is never written before a line of an entry with
\* a smaller index.  (Stated for the runs in which no Runner has failed and
\* whose selected definitions have distinct names, where an entry's index is
\* its definition's position.)
C1_RegistrationOrder ==
  (DistinctNames /\ \A i \in DOMAIN task : ~RunnerFailed(i)) =>
    \A p, q \in BenchLines :
      p < q => results[out[p].name].index <= results[out[q].name].index

\* C2: no selected definition has more than one per-benchmark line, the
\* immediate print and both sweeps counted together.  (Stated for the runs
\* whose selected definitions have distinct names.)
C2_AtMostOneLine ==
  DistinctNames =>
    \A i \in DOMAIN benchmarks :
      Cardinality({p \in BenchLines : out[p].name = benchmarks[i].name}) <= 1

\* C3: once the run has passed its join with some Runner failed, every
\* definition whose Runner completed successfully has its timing line and no
\* "unresolved" line.  (Stated for the runs whose selected definitions have
\* distinct names.)
C3_SiblingsReported ==
  (DistinctNames /\ Joined /\ \E f \in DOMAIN task : RunnerFailed(f)) =>
    \A i \in DOMAIN task :
      RunnerCompleted(i) =>
        /\ Count("report", benchmarks[i].name) >= 1
        /\ Count("unresolved", benchmarks[i].name) = 0

\* C4: once the run has passed its join, every definition whose Runner failed
\* has exactly one "failed" line, no timing line and no "unresolved" line.
\* (Stated for the runs whose selected definitions have distinct names.)
C4_FailedLine ==
  (DistinctNames /\ Joined) =>
    \A i \in DOMAIN task :
      RunnerFailed(i) =>
        /\ Count("failed", benchmarks[i].name) = 1
        /\ Count("report", benchmarks[i].name) = 0
        /\ Count("unresolved", benchmarks[i].name) = 0

\* the summary line is written at the join, once, and shows FAIL exactly if
\* a Runner has failed
SummaryOnceAndRight ==
  /\ ~Joined => SummaryLines = {}
  /\ Joined =>
       /\ Cardinality(SummaryLines) = 1
       /\ \A p \in SummaryLines :
            /\ out[p].state \in {"FAIL", "DONE"}
            /\ out[p].state = "FAIL" <=> \E i \in DOMAIN task : RunnerFailed(i)

\* C5: a run whose bodies all settle writes the summary line, exactly once,
\* and the line shows FAIL if and only if a selected definition's Runner
\* failed (DONE otherwise).
C5_Summary ==
  /\ []SummaryOnceAndRight
  /\ BodiesSettled ~> Cardinality(SummaryLines) = 1

\* a run with two definitions or more, one failed, all bodies settled, and
\* its summary written
C5_Witness ==
  /\ Len(benchmarks) >= 2
  /\ BodiesSettled
  /\ \E i \in DOMAIN task : RunnerFailed(i)
  /\ \E i \in DOMAIN task : RunnerCompleted(i)
  /\ \E p \in SummaryLines : out[p].state = "FAIL"

\* C6: the measured count of the summary line is the number of selected
\* definitions whose Runner completes successfully in the run (all of the
\* selected ones when none fails).  (Stated for the runs whose selected
\* definitions have distinct names.)
C6_MeasuredCount ==
  DistinctNames =>
    \A p \in SummaryLines :
      /\ out[p].measured
           = Cardinality({i \in DOMAIN task : RunnerCompleted(i)})
      /\ (\A i \in DOMAIN task : ~RunnerFailed(i)) =>
           out[p].measured = Len(benchmarks)

\* C7: exit is called at most once, with a non-zero status, only if a
\* selected definition failed and only after the summary line; never in a
\* run without a failure.
C7_Exit ==
  /\ Len(exitCalls) <= 1
  /\ \A c \in DOMAIN exitCalls : exitCalls[c] # 0
  /\ exitTimer # "none" => Cardinality(SummaryLines) = 1
  /\ exitCalls # <<>> =>
       /\ \E i \in DOMAIN task : RunnerFailed(i)
       /\ Cardinality(SummaryLines) = 1
  /\ (\A i \in DOMAIN task : ~RunnerFailed(i)) =>
       exitTimer = "none" /\ exitCalls = <<>>

\* exit was called in a run of two definitions or more
C7_Witness ==
  /\ Len(benchmarks) >= 2
  /\ exitCalls = <<ExitStatus>>
  /\ \E i \in DOMAIN task : RunnerCompleted(i)

----------------------------------------------------------------------------
(* C8 - C10: the registry and the selection *)

\* the patterns a runBenchmarks call asks for, an unset one being its default
AskedOnly == IF call.arg.hasOnly THEN call.arg.only ELSE DefaultOnly
AskedSkip == IF call.arg.hasSkip THEN call.arg.skip ELSE DefaultSkip

\* positions in the registry of the definitions the call asks for
Matching ==
  {i \in DOMAIN candidates :
     Test(AskedOnly, candidates[i].name) /\ ~Test(AskedSkip, candidates[i].name)}

\* the k-th of them in registration order
NthMatching(k) ==
  CHOOSE i \in Matching : Cardinality({j \in Matching : j < i}) = k - 1

\* C8: runBenchmarks selects exactly the registered definitions whose name
\* matches `only` and does not match `skip`, in registration order; the
\* filtered count is the number registered minus the number selected; with
\* only = /^a/ and skip = /z$/ a definition named "az" is not selected.
C8_Selection ==
  call.op = "runBenchmarks" =>
    /\ Len(benchmarks) = Cardinality(Matching)
    /\ \A k \in DOMAIN benchmarks : benchmarks[k] = candidates[NthMatching(k)]
    /\ meta.filtered = Len(candidates) - Cardinality(Matching)
    /\ out[1].count = Len(benchmarks)
    /\ (AskedOnly = "/^a/" /\ AskedSkip = "/z$/") =>
         \A k \in DOMAIN benchmarks : benchmarks[k].name # NameAZ

\* runBenchmarks({ only: /^a/, skip: /z$/ }) on a registry that holds "az"
\* and other definitions, two of them selected
C8_Witness ==
  /\ call.op = "runBenchmarks"
  /\ call.arg.hasOnly /\ call.arg.hasSkip
  /\ \E i \in DOMAIN candidates : candidates[i].name = NameAZ
  /\ Len(benchmarks) >= 2
  /\ meta.filtered >= 1

\* C9: runBenchmarks called with no options selects every registered
\* definition, so the filtered count is 0.
C9_DefaultSelectsAll ==
  (call.op = "runBenchmarks" /\ ~call.arg.hasOnly /\ ~call.arg.hasSkip) =>
    /\ benchmarks = candidates
    /\ meta.filtered = 0

\* C10: a bench call with an empty or unset name fails with the anonymous
\* error and leaves the registry as it is; any other bench call appends one
\* definition of the given name at the end and leaves the entries before it
\* as they are, whether or not the name is registered already.
C10_Bench ==
  [][(call'.op = "bench" /\ pc' = "register") =>
       IF ~call'.arg.hasName \/ Len(call'.arg.name) = 0
         THEN /\ call'.error = AnonymousError
              /\ candidates' = candidates
         ELSE /\ call'.error = "none"
              /\ Len(candidates') = Len(candidates) + 1
              /\ SubSeq(candidates', 1, Len(candidates)) = candidates
              /\ candidates'[Len(candidates')].name = call'.arg.name]_vars

\* a name registered twice, then a bench call rejected as anonymous
C10_Witness ==
  /\ Len(candidates) >= 2
  /\ candidates[1].name = candidates[2].name
  /\ call.op = "bench"
  /\ call.error = AnonymousError

----------------------------------------------------------------------------
(* C11, C12, C17: one invocation and its clock *)

\* C11: when a body has returned, validation fails with the stop error
\* exactly if the body never called stop, otherwise with the start error
\* exactly if it never called start, otherwise with the order error exactly
\* if the start it recorded is greater than the stop; otherwise the
\* invocation succeeds with the duration stop - start.  For every timestamp,
\* 0 included.
C11_Validation ==
  \A j \in Invs :
    runner[j].body = "returned" =>
      IF own[j].stop.isNaN THEN runner[j].error = StopError
      ELSE IF own[j].start.isNaN THEN runner[j].error = StartError
      ELSE IF own[j].start.t > own[j].stop.t THEN runner[j].error = OrderError
      ELSE /\ runner[j].error = "none"
           /\ runner[j].res.st = "fulfilled"
           /\ runner[j].res.dur = own[j].stop.t - own[j].start.t

\* C12: an invocation whose body never calls start or stop and returns is
\* timed by the Runner: it yields a duration and does not fail validation.
C12_UntimedBody ==
  \A j \in Invs :
    (runner[j].body = "returned" /\ own[j] = NewClock) =>
      /\ runner[j].error = "none"
      /\ runner[j].res.st = "fulfilled"

\* C17: under every interleaving the clock read for an invocation holds what
\* the invocation's own body last wrote, and the outcome of the invocation
\* is computed from those two values alone.
C17_OwnClock ==
  \A j \in Invs :
    /\ clocks[ClockOf(j)] = own[j]
    /\ runner[j].body = "returned" =>
         /\ runner[j].error = assertTiming(own[j])
         /\ runner[j].res.st = "fulfilled" =>
              runner[j].res.dur = own[j].stop.t - own[j].start.t

\* two invocations that overlapped, called start and stop at different times
\* and were given different durations
C17_Witness ==
  /\ runner[1].body = "returned" /\ runner[1].res.st = "fulfilled"
  /\ runner[2].body = "returned" /\ runner[2].res.st = "fulfilled"
  /\ own[1].start.t < own[2].start.t
  /\ own[2].start.t <= own[1].stop.t
  /\ runner[1].res.dur # runner[2].res.dur

----------------------------------------------------------------------------
(* C13 - C16, C18 - C20 *)

\* the entry of definition i
Entry(i) == results[benchmarks[i].name]

\* C13: the timings of a definition's entry are unset or hold exactly `runs`
\* durations, those of its invocations, all of which have succeeded; and a
\* timing line shows their sum divided by `runs`.
C13_Timings ==
  \A i \in DOMAIN benchmarks :
    /\ Entry(i).timings.isArray =>
         /\ Len(Entry(i).timings.vals) = benchmarks[i].runs
         /\ AllFulfilled(inv[i])
         /\ Entry(i).timings.vals = Durations(inv[i])
    /\ \A p \in DOMAIN out :
         (out[p].kind = "report" /\ out[p].name = benchmarks[i].name) =>
           /\ AllFulfilled(inv[i])
           /\ out[p].value[1] * benchmarks[i].runs
                = Sum(Durations(inv[i])) * out[p].value[2]

\* C14: bench stores runs = 1 for a function and for runs that are unset,
\* NaN, infinite, negative, zero or below 1, and floor(runs) for a finite
\* runs >= 1; every registered definition has an integer runs >= 1.
C14_Runs ==
  /\ \A i \in DOMAIN candidates :
       candidates[i].runs \in Nat /\ candidates[i].runs >= 1
  /\ (call.op = "bench" /\ call.error = "none") =>
       LET r == call.arg.runs
           stored == candidates[Len(candidates)].runs
       IN IF call.arg.kind = "function" THEN stored = 1
          ELSE IF r[1] = "num" /\ r[2] >= r[3]
            THEN stored * r[3] <= r[2] /\ r[2] < (stored + 1) * r[3]
          ELSE stored = 1

\* bench was given runs = 3/2 after another definition
C14_Witness ==
  /\ call.op = "bench" /\ call.error = "none"
  /\ call.arg.runs = Num(3, 2)
  /\ Len(candidates) >= 2

\* C15: runBenchmarks passes its join (and runs its sweep and writes the
\* summary) only when no Runner is pending any more.  (Stated for the runs
\* whose selected definitions have distinct names.)
C15_JoinWaits ==
  [][(DistinctNames /\ pc = "running" /\ pc' = "closed") =>
       \A i \in DOMAIN task : task[i] # "pending"]_vars

\* C16: no entry with recorded timings stays without its line while every
\* entry before it has its line.  (Stated for the runs in which no Runner
\* has failed and whose selected definitions have distinct names.)
C16_Chain ==
  (DistinctNames /\ \A i \in DOMAIN task : ~RunnerFailed(i)) =>
    \A i \in DOMAIN benchmarks :
      (Entry(i).timings.isArray /\ Count("report", benchmarks[i].name) = 0) =>
        \E h \in 1..(i - 1) : Count("report", benchmarks[h].name) = 0

\* C18: every invocation of every selected definition is started at launch;
\* while the process lives a pending invocation can settle whatever the
\* others do; and a definition whose invocations have all succeeded has its
\* timings recorded or can record them at once, whatever is still pending
\* elsewhere.
C18_AllStarted ==
  /\ DOMAIN inv = DOMAIN benchmarks
  /\ \A i \in DOMAIN inv : DOMAIN inv[i] = 1..benchmarks[i].runs
  /\ pc \in {"running", "closed"} =>
       \A i \in DOMAIN inv : \A k \in DOMAIN inv[i] :
         inv[i][k].st = "pending" =>
           ENABLED Settle(i, k, [st |-> "fulfilled", dur |-> 0])
  /\ pc \in {"running", "closed"} =>
       \A i \in DOMAIN inv :
         AllFulfilled(inv[i]) =>
           \/ RunnerCompleted(i) /\ Entry(i).timings.isArray
           \/ ENABLED Resume(i)

\* the last definition has its timings while the first is still pending
C18_Witness ==
  /\ Len(benchmarks) >= 2
  /\ DistinctNames
  /\ pc = "running"
  /\ \A k \in DOMAIN inv[1] : inv[1][k].st = "pending"
  /\ Entry(Len(benchmarks)).timings.isArray
  /\ benchmarks[Len(benchmarks)].runs >= 2

\* C19: in a run without failure, once the summary is written there is
\* exactly one timing line per selected definition, as many as the summary's
\* measured count.
C19_OneLineEach ==
  (Joined /\ \A i \in DOMAIN task : ~RunnerFailed(i)) =>
    /\ Cardinality({p \in DOMAIN out : out[p].kind = "report"})
         = Len(benchmarks)
    /\ \A p \in SummaryLines :
         Cardinality({q \in DOMAIN out : out[q].kind = "report"})
           = out[p].measured

\* C20: once the summary line is written the run writes no further line and
\* changes neither its counters nor any entry.  (Stated for the runs whose
\* selected definitions have distinct names.)
C20_Closed ==
  [][(DistinctNames /\ Joined) =>
       (out' = out /\ meta' = meta /\ results' = results)]_vars

====
